---- MODULE Spec2Model ----
(***************************************************************************)
(* Model of the video denoising bot: the denoise_video pipeline of         *)
(* video_processor.py and the process_video chat handler of handlers.py.   *)
(* Jobs are coroutines of one asyncio event loop; the handler's            *)
(* init_and_process runs on a worker thread (asyncio.to_thread).           *)
(* The Render MCP server of mcp_render_server.py is a separate process,    *)
(* specified by SpecMcp.                                                   *)
(***************************************************************************)
EXTENDS Integers, Sequences, FiniteSets, TLC

\* ------------------------------------------------------------------ bounds
NJobs == 2
MaxCalls == 2

Jobs == 1..NJobs

\* ------------------------------------------------------- program constants
MAX_FILE_SIZE == 52428800
PROCESSING_TIMEOUT == 300
INIT_TIMEOUT == 60

\* Inputs the environment may present: the largest file the size check lets
\* through and the smallest it rejects, a fast and an overlong model call.
FileSizes == {MAX_FILE_SIZE, MAX_FILE_SIZE + 1}
InitDurations == {1, INIT_TIMEOUT + 1}
EnhanceDurations == {1, PROCESSING_TIMEOUT + 1}
Callbacks == {"none", "ok", "raises"}

\* Messages of video_processor.py.
MsgNotFound == "Input file not found"
MsgTooLarge == "File too large: maximum 50MB allowed"
MsgNoAudio == "No audio track found in video"
MsgNotInstalled == "DeepFilterNet (df) is not installed"
MsgInitFailed == "Failed to initialize DeepFilterNet model"
MsgInitTimeout == "Model initialization timeout"
MsgProcTimeout == "Processing timeout: video too long or system overloaded"
MsgUnexpected == "Unexpected error during video processing"

\* Paths of a job: the temp directory, the files inside it, and (for
\* denoise_video) the caller's input and output paths outside it.
PathNames == {"dir", "input", "audio", "enhanced", "output"}
HandleNames == {"video", "final_clip", "enhanced_audio"}

VARIABLES
    mcp,           \* the MCP server process: its key and the tool call in progress
    dfInstalled,   \* "from df import enhance, init_df" succeeded
    sfInstalled,   \* "import soundfile" succeeded (handlers.py only)
    model,         \* video_processor._model: 0 is None, else the instance
    initCount,     \* number of init_df() calls that returned a model
    loop,          \* job running on the event loop thread, 0 when idle
    kind,          \* "none", "denoise" or "handler", per job
    pc,            \* position of each job
    fileSize,      \* os.path.getsize(input_path), 0 before the job reads it
    callback,      \* progress_callback of a denoise_video job, known when used
    pending,       \* exception or return value on its way out of the try
    result,        \* what the job's caller observes
    temp_files,    \* denoise_video's temp_files list
    fs,            \* paths that exist, as <<job, name>>
    opens,         \* per job and handle: times opened
    closes,        \* per job and handle: times closed
    events,        \* per job: external operations invoked so far
    initDur,       \* seconds init_df took under denoise_video's wait_for (0: not run)
    enhDur,        \* seconds enhance took under denoise_video's wait_for (0: not run)
    sent,          \* per job: messages delivered to the user, in order
    progress,      \* per job: values passed to progress_callback, in order
    thread,        \* per job: state of the to_thread worker
    delFail        \* per job: paths whose deletion raises OSError

vars == <<mcp, dfInstalled, sfInstalled, model, initCount, loop, kind, pc, fileSize,
          callback, pending, result, temp_files, fs, opens, closes, events,
          initDur, enhDur, sent, progress, thread, delFail>>

jobvars == <<kind, pc, fileSize, callback, pending, result, temp_files, fs,
             opens, closes, events, initDur, enhDur, sent, progress, thread,
             delFail>>

\* ---------------------------------------------------------------- helpers
Running == [type |-> "running", msg |-> ""]
Exc(t, m) == [type |-> t, msg |-> m]
NoResult == [status |-> "none", msg |-> ""]

\* The event loop runs one coroutine at a time; a job may take a step when
\* the loop is idle or when it is the job that holds it.
Runnable(j) == loop \in {0, j}

Set(f, j, v) == [f EXCEPT ![j] = v]
Add(f, j, e) == [f EXCEPT ![j] = @ \cup {e}]
\* One temp directory for all jobs instead of one mkdtemp() per job.
PathShared(j, n) == <<1, n>>
Path(j, n) == <<j, n>>
Create(fsys, j, n) == fsys \cup {Path(j, n)}
Open(f, j, h) == [f EXCEPT ![j][h] = @ + 1]

\* Names that live inside the job's temp directory.
InDir(k) == IF k = "denoise" THEN {"audio", "enhanced"}
            ELSE {"input", "audio", "enhanced", "output"}
DirEmpty(k, j, fsys) == \A n \in InDir(k) : Path(j, n) \notin fsys

\* The size check with the boundary off by one.
TooLargeMut(size) == size >= MAX_FILE_SIZE

\* Line 104: file_size > MAX_FILE_SIZE.
TooLarge(size) == size > MAX_FILE_SIZE

\* asyncio.wait_for(coro, timeout): the timer callback runs on the event
\* loop, so it can fire only while the awaited coroutine is suspended.
WaitFor(suspends, dur, timeout) ==
    IF suspends /\ dur > timeout THEN "timeout" ELSE "completed"

\* init_model() and apply_enhancement() call get_model() / enhance()
\* directly: their bodies hold no await.
InitModelSuspends == FALSE
ApplyEnhancementSuspends == FALSE

\* One iteration of the cleanup loop of denoise_video.
RemovePath(k, j, n, fsys, failing) ==
    IF Path(j, n) \notin fsys THEN fsys
    ELSE IF n = "dir"
         THEN IF DirEmpty(k, j, fsys) /\ n \notin failing
              THEN fsys \ {Path(j, n)} ELSE fsys
         ELSE IF n \notin failing THEN fsys \ {Path(j, n)} ELSE fsys

RECURSIVE RemoveAll(_, _, _, _, _)
RemoveAll(k, j, files, fsys, failing) ==
    IF files = <<>> THEN fsys
    ELSE RemoveAll(k, j, Tail(files),
                   RemovePath(k, j, Head(files), fsys, failing), failing)

\* Deletions that may raise OSError: none, or one of the listed paths that
\* exist (a path that does not exist is never passed to a delete call).
FailingSets(j, files, fsys) ==
    {{}} \cup {{files[i]} : i \in {k \in DOMAIN files : Path(j, files[k]) \in fsys}}

\* The except clauses of denoise_video.
ExceptClause(p) ==
    CASE p.type = "ReturnOk" -> [status |-> "returned_ok", msg |-> ""]
      [] p.type = "ReturnErr" -> [status |-> "returned_err", msg |-> p.msg]
      [] p.type = "VideoProcessingError" -> [status |-> "raised", msg |-> p.msg]
      [] p.type = "TimeoutError" -> [status |-> "returned_err", msg |-> MsgProcTimeout]
      [] OTHER -> [status |-> "returned_err", msg |-> MsgUnexpected]

\* The two "if x is not None: x.close()" of denoise_video's finally.
CloseIfOpen(cl, op, j, h) ==
    IF op[j][h] > 0 THEN [cl EXCEPT ![j][h] = @ + 1] ELSE cl

\* ------------------------------------------------------------------- Init
\* The MCP server process before its first tool call; k tells whether
\* RENDER_API_KEY is set to a non-empty value.
McpInit(k) ==
    [key |-> k, pc |-> "idle", tool |-> "none", requests |-> 0,
     resp |-> "none", exc |-> "none", result |-> "none", calls |-> 0]

\* No job has arrived yet.
BotIdle ==
    /\ model = 0
    /\ initCount = 0
    /\ loop = 0
    /\ kind = [j \in Jobs |-> "none"]
    /\ pc = [j \in Jobs |-> "idle"]
    /\ fileSize = [j \in Jobs |-> 0]
    /\ callback = [j \in Jobs |-> "none"]
    /\ pending = [j \in Jobs |-> Running]
    /\ result = [j \in Jobs |-> NoResult]
    /\ temp_files = [j \in Jobs |-> <<>>]
    /\ fs = {}
    /\ opens = [j \in Jobs |-> [h \in HandleNames |-> 0]]
    /\ closes = [j \in Jobs |-> [h \in HandleNames |-> 0]]
    /\ events = [j \in Jobs |-> {}]
    /\ initDur = [j \in Jobs |-> 0]
    /\ enhDur = [j \in Jobs |-> 0]
    /\ sent = [j \in Jobs |-> <<>>]
    /\ progress = [j \in Jobs |-> <<>>]
    /\ thread = [j \in Jobs |-> "none"]
    /\ delFail = [j \in Jobs |-> {}]

Init ==
    /\ dfInstalled \in BOOLEAN
    /\ sfInstalled \in BOOLEAN
    /\ BotIdle
    /\ mcp = McpInit(FALSE)

\* ---------------------------------------------------------- denoise_video
\* A raise or return inside the try: the job goes on to the except clauses
\* and the finally block.
Leave(j, t, m) ==
    /\ pending' = Set(pending, j, Exc(t, m))
    /\ pc' = Set(pc, j, "d_finally")

\* Lines 92-109: the call, the existence check and the size check.
D_Validate(j) ==
    /\ pc[j] = "idle"
    /\ Runnable(j)
    /\ \E exists \in BOOLEAN, size \in FileSizes :
        /\ kind' = Set(kind, j, "denoise")
        /\ fs' = IF exists THEN Create(fs, j, "input") ELSE fs
        /\ fileSize' = Set(fileSize, j, IF exists THEN size ELSE 0)
        /\ IF ~exists
           THEN Leave(j, "ReturnErr", MsgNotFound)
           ELSE IF TooLarge(size)
                THEN Leave(j, "VideoProcessingError", MsgTooLarge)
                ELSE /\ pc' = Set(pc, j, "d_open")
                     /\ pending' = pending
    /\ loop' = j
    /\ UNCHANGED <<mcp, dfInstalled, sfInstalled, model, initCount, callback,
                   result, temp_files, opens, closes, events, initDur, enhDur,
                   sent, progress, thread, delFail>>

\* Lines 112-127: VideoFileClip(input_path) and the audio-track check.
D_Open(j) ==
    /\ pc[j] = "d_open"
    /\ Runnable(j)
    /\ \E out \in {"ok", "no_audio", "raise"} :
        /\ events' = [events EXCEPT ![j] = @ \cup
              (CASE out = "no_audio" -> {"open", "no_audio"}
                 [] out = "ok" -> {"open", "open_ok"}
                 [] OTHER -> {"open"})]
        /\ opens' = IF out = "raise" THEN opens ELSE Open(opens, j, "video")
        /\ CASE out = "ok" -> /\ pc' = Set(pc, j, "d_mktemp")
                              /\ pending' = pending
             [] out = "no_audio" -> Leave(j, "VideoProcessingError", MsgNoAudio)
             [] OTHER -> Leave(j, "Exception", MsgUnexpected)
    /\ loop' = j
    /\ UNCHANGED <<mcp, dfInstalled, sfInstalled, model, initCount, kind, fileSize,
                   callback, result, temp_files, fs, closes, initDur, enhDur,
                   sent, progress, thread, delFail>>

\* Lines 130-135: mkdtemp, and the registration of the directory and of
\* audio.wav, in that order.
D_MkTemp(j) ==
    /\ pc[j] = "d_mktemp"
    /\ Runnable(j)
    /\ events' = Add(events, j, "mkdtemp")
    /\ \E out \in {"ok", "raise"} :
        IF out = "ok"
        THEN /\ fs' = Create(fs, j, "dir")
             /\ temp_files' = Set(temp_files, j, <<"dir", "audio">>)
             /\ pc' = Set(pc, j, "d_extract")
             /\ pending' = pending
        ELSE /\ Leave(j, "Exception", MsgUnexpected)
             /\ UNCHANGED <<fs, temp_files>>
    /\ loop' = j
    /\ UNCHANGED <<mcp, dfInstalled, sfInstalled, model, initCount, kind, fileSize,
                   callback, result, opens, closes, initDur, enhDur, sent,
                   progress, thread, delFail>>

\* The extraction with a retry: a failed write_audiofile is attempted again.
D_ExtractRetry(j) ==
    /\ pc[j] = "d_extract"
    /\ Runnable(j)
    /\ \E out \in {"ok", "fail", "partial"} :
        /\ events' = [events EXCEPT ![j] = @ \cup
              (IF out = "ok" THEN {"extract", "extract_ok"} ELSE {"extract"})]
        /\ fs' = IF out = "fail" THEN fs ELSE Create(fs, j, "audio")
        /\ pc' = IF out = "ok" THEN Set(pc, j, "d_init") ELSE pc
        /\ pending' = pending
    /\ loop' = j
    /\ UNCHANGED <<mcp, dfInstalled, sfInstalled, model, initCount, kind, fileSize,
                   callback, result, temp_files, opens, closes, initDur,
                   enhDur, sent, progress, thread, delFail>>

\* Lines 137-145: write_audiofile; a failed write may leave a partial file.
D_Extract(j) ==
    /\ pc[j] = "d_extract"
    /\ Runnable(j)
    /\ \E out \in {"ok", "fail", "partial"} :
        /\ events' = [events EXCEPT ![j] = @ \cup
              (IF out = "ok" THEN {"extract", "extract_ok"} ELSE {"extract"})]
        /\ fs' = IF out = "fail" THEN fs ELSE Create(fs, j, "audio")
        /\ IF out = "ok"
           THEN /\ pc' = Set(pc, j, "d_init")
                /\ pending' = pending
           ELSE Leave(j, "Exception", MsgUnexpected)
    /\ loop' = j
    /\ UNCHANGED <<mcp, dfInstalled, sfInstalled, model, initCount, kind, fileSize,
                   callback, result, temp_files, opens, closes, initDur,
                   enhDur, sent, progress, thread, delFail>>

\* await asyncio.wait_for(...): the job may be suspended before and after
\* the awaited coroutine runs; other coroutines then get the loop.
D_Yield(j) ==
    /\ loop = j
    /\ pc[j] \in {"d_init", "d_load", "d_enhance", "d_save"}
    /\ loop' = 0
    /\ UNCHANGED <<mcp, dfInstalled, sfInstalled, model, initCount>>
    /\ UNCHANGED jobvars

\* get_model(), lines 48-74, run by init_model() under wait_for (147-158).
\* The whole of get_model runs in one step of the event loop.
D_InitModel(j) ==
    /\ pc[j] = "d_init"
    /\ Runnable(j)
    /\ \E dur \in InitDurations, out \in {"ok", "raise"} :
        LET cached == model # 0
            called == ~cached /\ dfInstalled
            took == IF called THEN dur ELSE 0
            made == called /\ out = "ok"
        IN  /\ events' = [events EXCEPT ![j] = @ \cup
                  (IF cached \/ made THEN {"init", "init_ok"} ELSE {"init"})]
            /\ initDur' = Set(initDur, j, took)
            /\ model' = IF made THEN initCount + 1 ELSE model
            /\ initCount' = IF made THEN initCount + 1 ELSE initCount
            /\ IF WaitFor(InitModelSuspends, took, INIT_TIMEOUT) = "timeout"
               THEN Leave(j, "VideoProcessingError", MsgInitTimeout)
               ELSE IF cached \/ made
                    THEN /\ pc' = Set(pc, j, "d_load")
                         /\ pending' = pending
                    ELSE IF ~dfInstalled
                         THEN Leave(j, "VideoProcessingError", MsgNotInstalled)
                         ELSE Leave(j, "VideoProcessingError", MsgInitFailed)
    /\ loop' = j
    /\ UNCHANGED <<mcp, dfInstalled, sfInstalled, kind, fileSize, callback, result,
                   temp_files, fs, opens, closes, enhDur, sent, progress,
                   thread, delFail>>

\* Line 161: librosa.load(temp_audio_path, sr=48000).
D_Load(j) ==
    /\ pc[j] = "d_load"
    /\ Runnable(j)
    /\ \E out \in {"ok", "raise"} :
        IF out = "ok"
        THEN /\ pc' = Set(pc, j, "d_enhance")
             /\ pending' = pending
        ELSE Leave(j, "Exception", MsgUnexpected)
    /\ loop' = j
    /\ UNCHANGED <<mcp, dfInstalled, sfInstalled, model, initCount, kind, fileSize,
                   callback, result, temp_files, fs, opens, closes, events,
                   initDur, enhDur, sent, progress, thread, delFail>>

\* Lines 164-174: enhance(model, df_state, audio_array) under wait_for.
D_Enhance(j) ==
    /\ pc[j] = "d_enhance"
    /\ Runnable(j)
    /\ \E dur \in EnhanceDurations, out \in {"ok", "raise"} :
        /\ enhDur' = Set(enhDur, j, dur)
        /\ events' = [events EXCEPT ![j] = @ \cup
                        (IF out = "ok" THEN {"enhance", "enhance_ok"}
                                       ELSE {"enhance"})]
        /\ IF WaitFor(ApplyEnhancementSuspends, dur, PROCESSING_TIMEOUT) = "timeout"
           THEN Leave(j, "VideoProcessingError", MsgProcTimeout)
           ELSE IF out = "ok"
                THEN /\ pc' = Set(pc, j, "d_save")
                     /\ pending' = pending
                ELSE Leave(j, "Exception", MsgUnexpected)
    /\ loop' = j
    /\ UNCHANGED <<mcp, dfInstalled, sfInstalled, model, initCount, kind, fileSize,
                   callback, result, temp_files, fs, opens, closes, initDur,
                   sent, progress, thread, delFail>>

\* Lines 177-182: enhanced.wav is registered, then written.
D_Save(j) ==
    /\ pc[j] = "d_save"
    /\ Runnable(j)
    /\ temp_files' = Set(temp_files, j, Append(temp_files[j], "enhanced"))
    /\ \E out \in {"ok", "fail", "partial"} :
        /\ fs' = IF out = "fail" THEN fs ELSE Create(fs, j, "enhanced")
        /\ IF out = "ok"
           THEN /\ pc' = Set(pc, j, "d_openenh")
                /\ pending' = pending
           ELSE Leave(j, "Exception", MsgUnexpected)
    /\ loop' = j
    /\ UNCHANGED <<mcp, dfInstalled, sfInstalled, model, initCount, kind, fileSize,
                   callback, result, opens, closes, events, initDur, enhDur,
                   sent, progress, thread, delFail>>

\* Lines 185-188: AudioFileClip(enhanced_audio_path) and video.set_audio.
D_OpenEnhanced(j) ==
    /\ pc[j] = "d_openenh"
    /\ Runnable(j)
    /\ \E out \in {"ok", "raise_open", "raise_set"} :
        /\ opens' = IF out = "raise_open" THEN opens
                    ELSE Open(opens, j, "enhanced_audio")
        /\ IF out = "ok"
           THEN /\ pc' = Set(pc, j, "d_write")
                /\ pending' = pending
           ELSE Leave(j, "Exception", MsgUnexpected)
    /\ loop' = j
    /\ UNCHANGED <<mcp, dfInstalled, sfInstalled, model, initCount, kind, fileSize,
                   callback, result, temp_files, fs, closes, events, initDur,
                   enhDur, sent, progress, thread, delFail>>

\* Lines 202-209: result.write_videofile(output_path, ...).
D_Write(j) ==
    /\ pc[j] = "d_write"
    /\ Runnable(j)
    /\ \E out \in {"ok", "fail", "partial"} :
        /\ events' = [events EXCEPT ![j] = @ \cup
              (IF out = "ok" THEN {"write", "write_ok"} ELSE {"write"})]
        /\ fs' = IF out = "fail" THEN fs ELSE Create(fs, j, "output")
        /\ IF out = "ok"
           THEN /\ pc' = Set(pc, j, "d_progress")
                /\ pending' = pending
           ELSE Leave(j, "Exception", MsgUnexpected)
    /\ loop' = j
    /\ UNCHANGED <<mcp, dfInstalled, sfInstalled, model, initCount, kind, fileSize,
                   callback, result, temp_files, opens, closes, initDur,
                   enhDur, sent, progress, thread, delFail>>

\* D_Progress with the final progress_callback(1.0) call left out.
D_ProgressSkip(j) ==
    /\ pc[j] = "d_progress"
    /\ Runnable(j)
    /\ \E cb \in Callbacks :
        /\ callback' = Set(callback, j, cb)
        /\ Leave(j, "ReturnOk", "")
    /\ loop' = j
    /\ UNCHANGED <<mcp, dfInstalled, sfInstalled, model, initCount, kind, fileSize,
                   result, temp_files, fs, opens, closes, events, initDur,
                   enhDur, sent, progress, thread, delFail>>

\* Lines 211-216: progress_callback(1.0), recorded in percent, and the
\* return of (output_path, None).
D_Progress(j) ==
    /\ pc[j] = "d_progress"
    /\ Runnable(j)
    /\ \E cb \in Callbacks :
        /\ callback' = Set(callback, j, cb)
        /\ progress' = IF cb = "none" THEN progress
                       ELSE Set(progress, j, Append(progress[j], 100))
        /\ IF cb = "raises"
           THEN Leave(j, "Exception", MsgUnexpected)
           ELSE Leave(j, "ReturnOk", "")
    /\ loop' = j
    /\ UNCHANGED <<mcp, dfInstalled, sfInstalled, model, initCount, kind, fileSize,
                   result, temp_files, fs, opens, closes, events, initDur,
                   enhDur, sent, thread, delFail>>

\* D_Finally with the cleanup loop unguarded: a failing delete ends the
\* loop and replaces the job's result by the OSError.
D_FinallyEscalate(j) ==
    /\ pc[j] = "d_finally"
    /\ Runnable(j)
    /\ closes' = CloseIfOpen(CloseIfOpen(closes, opens, j, "video"),
                             opens, j, "enhanced_audio")
    /\ \E failing \in FailingSets(j, temp_files[j], fs) :
        /\ delFail' = Set(delFail, j, failing)
        /\ fs' = IF failing = {} THEN RemoveAll("denoise", j, temp_files[j], fs, failing)
                 ELSE fs
        /\ result' = Set(result, j,
              IF failing = {} THEN ExceptClause(pending[j])
              ELSE [status |-> "raised", msg |-> "OSError"])
    /\ pc' = Set(pc, j, "done")
    /\ loop' = 0
    /\ UNCHANGED <<mcp, dfInstalled, sfInstalled, model, initCount, kind, fileSize,
                   callback, pending, temp_files, opens, events, initDur,
                   enhDur, sent, progress, thread>>

\* Lines 218-252: the except clauses, then the finally block: close the
\* clips that were opened, then walk temp_files in registration order.
D_Finally(j) ==
    /\ pc[j] = "d_finally"
    /\ Runnable(j)
    /\ result' = Set(result, j, ExceptClause(pending[j]))
    /\ closes' = CloseIfOpen(CloseIfOpen(closes, opens, j, "video"),
                             opens, j, "enhanced_audio")
    /\ \E failing \in FailingSets(j, temp_files[j], fs) :
        /\ delFail' = Set(delFail, j, failing)
        /\ fs' = RemoveAll("denoise", j, temp_files[j], fs, failing)
    /\ pc' = Set(pc, j, "done")
    /\ loop' = 0
    /\ UNCHANGED <<mcp, dfInstalled, sfInstalled, model, initCount, kind, fileSize,
                   callback, pending, temp_files, opens, events, initDur,
                   enhDur, sent, progress, thread>>

\* ---------------------------------------------------------- process_video
\* An exception inside the handler's try (caught at line 170).
Catch(j) ==
    /\ pending' = Set(pending, j, Exc("Exception", ""))
    /\ pc' = Set(pc, j, "h_except")

\* The only error text of handlers.py, lines 172-175.
MsgGenericError == "An error occurred while processing your video"

\* DEEPFILTERNET_AVAILABLE, lines 22-31.
DEEPFILTERNET_AVAILABLE == dfInstalled /\ sfInstalled

\* The status messages awaited between the stages, and what follows each.
NotifyTag == [h_a_download |-> "downloading", h_a_extract |-> "extracting",
              h_a_apply |-> "applying", h_a_merge |-> "merging",
              h_a_complete |-> "complete"]
NotifyNext == [h_a_download |-> "h_download", h_a_extract |-> "h_chat_action",
               h_a_apply |-> "h_to_thread", h_a_merge |-> "h_merge",
               h_a_complete |-> "h_send_video"]

\* The file removals of the handler's finally, in the order of the code.
CleanupOrder == <<"input", "audio", "enhanced", "output", "dir">>

\* Lines 64-81: the availability check and mkdtemp, both outside the try.
H_Start(j) ==
    /\ pc[j] = "idle"
    /\ Runnable(j)
    /\ kind' = Set(kind, j, "handler")
    /\ \E out \in {"ok", "raise"} :
        IF ~DEEPFILTERNET_AVAILABLE
        THEN /\ sent' = IF out = "ok"
                        THEN Set(sent, j, Append(sent[j], "not_installed"))
                        ELSE sent
             /\ result' = Set(result, j,
                    [status |-> IF out = "ok" THEN "completed" ELSE "raised",
                     msg |-> ""])
             /\ pc' = Set(pc, j, "done")
             /\ loop' = 0
             /\ UNCHANGED <<fs, events>>
        ELSE /\ events' = Add(events, j, "mkdtemp")
             /\ fs' = IF out = "ok" THEN Create(fs, j, "dir") ELSE fs
             /\ result' = IF out = "ok" THEN result
                          ELSE Set(result, j, [status |-> "raised", msg |-> ""])
             /\ pc' = Set(pc, j, IF out = "ok" THEN "h_a_download" ELSE "done")
             /\ loop' = IF out = "ok" THEN j ELSE 0
             /\ sent' = sent
    /\ UNCHANGED <<mcp, dfInstalled, sfInstalled, model, initCount, fileSize,
                   callback, pending, temp_files, opens, closes, initDur,
                   enhDur, progress, thread, delFail>>

\* await message.answer(...) at lines 85, 93, 106, 132 and 159.
H_Notify(j) ==
    /\ pc[j] \in DOMAIN NotifyTag
    /\ Runnable(j)
    /\ \E out \in {"ok", "raise"} :
        IF out = "ok"
        THEN /\ sent' = Set(sent, j, Append(sent[j], NotifyTag[pc[j]]))
             /\ pc' = Set(pc, j, NotifyNext[pc[j]])
             /\ pending' = pending
        ELSE /\ Catch(j)
             /\ sent' = sent
    /\ loop' = 0
    /\ UNCHANGED <<mcp, dfInstalled, sfInstalled, model, initCount, kind, fileSize,
                   callback, result, temp_files, fs, opens, closes, events,
                   initDur, enhDur, progress, thread, delFail>>

\* Line 89: await message.bot.download(file=..., destination=input_path).
H_Download(j) ==
    /\ pc[j] = "h_download"
    /\ Runnable(j)
    /\ \E out \in {"ok", "fail", "partial"} :
        /\ events' = [events EXCEPT ![j] = @ \cup
              (IF out = "ok" THEN {"download", "download_ok"} ELSE {"download"})]
        /\ fs' = IF out = "fail" THEN fs ELSE Create(fs, j, "input")
        /\ IF out = "ok"
           THEN /\ pc' = Set(pc, j, "h_a_extract")
                /\ pending' = pending
           ELSE Catch(j)
    /\ loop' = 0
    /\ UNCHANGED <<mcp, dfInstalled, sfInstalled, model, initCount, kind, fileSize,
                   callback, result, temp_files, opens, closes, initDur,
                   enhDur, sent, progress, thread, delFail>>

\* Line 97: await message.bot.send_chat_action(...).
H_ChatAction(j) ==
    /\ pc[j] = "h_chat_action"
    /\ Runnable(j)
    /\ \E out \in {"ok", "raise"} :
        IF out = "ok"
        THEN /\ pc' = Set(pc, j, "h_extract")
             /\ pending' = pending
        ELSE Catch(j)
    /\ loop' = 0
    /\ UNCHANGED <<mcp, dfInstalled, sfInstalled, model, initCount, kind, fileSize,
                   callback, result, temp_files, fs, opens, closes, events,
                   initDur, enhDur, sent, progress, thread, delFail>>

\* Lines 98-103: open the clip, write its audio track, close the clip.
\* With no audio track clip.audio is None and line 100 raises
\* AttributeError before write_audiofile is entered.
H_Extract(j) ==
    /\ pc[j] = "h_extract"
    /\ Runnable(j)
    /\ \E out \in {"ok", "raise_open", "no_audio", "fail", "partial"} :
        /\ events' = [events EXCEPT ![j] = @ \cup
              (CASE out = "raise_open" -> {"open"}
                 [] out = "no_audio" -> {"open", "no_audio"}
                 [] out = "ok" -> {"open", "open_ok", "extract", "extract_ok"}
                 [] OTHER -> {"open", "open_ok", "extract"})]
        /\ opens' = IF out = "raise_open" THEN opens ELSE Open(opens, j, "video")
        /\ fs' = IF out \in {"ok", "partial"} THEN Create(fs, j, "audio") ELSE fs
        /\ closes' = IF out = "ok" THEN Open(closes, j, "video") ELSE closes
        /\ IF out = "ok"
           THEN /\ pc' = Set(pc, j, "h_a_apply")
                /\ pending' = pending
           ELSE /\ pc' = Set(pc, j, "h_except")
                /\ pending' = Set(pending, j,
                      Exc(IF out = "no_audio" THEN "AttributeError"
                          ELSE "Exception", ""))
    /\ loop' = j
    /\ UNCHANGED <<mcp, dfInstalled, sfInstalled, model, initCount, kind, fileSize,
                   callback, result, temp_files, initDur, enhDur, sent,
                   progress, thread, delFail>>

\* Line 128: await asyncio.to_thread(init_and_process) starts the worker.
H_ToThread(j) ==
    /\ pc[j] = "h_to_thread"
    /\ Runnable(j)
    /\ thread' = Set(thread, j, "init")
    /\ pc' = Set(pc, j, "h_join")
    /\ loop' = 0
    /\ UNCHANGED <<mcp, dfInstalled, sfInstalled, model, initCount, kind, fileSize,
                   callback, pending, result, temp_files, fs, opens, closes,
                   events, initDur, enhDur, sent, progress, delFail>>

\* Line 112, on the worker thread: model, df_state, sr = init_df().
T_InitDf(j) ==
    /\ thread[j] = "init"
    /\ \E out \in {"ok", "raise"} :
        /\ events' = [events EXCEPT ![j] = @ \cup
              (IF out = "ok" THEN {"init", "init_ok"} ELSE {"init"})]
        /\ initCount' = IF out = "ok" THEN initCount + 1 ELSE initCount
        /\ thread' = Set(thread, j, IF out = "ok" THEN "process" ELSE "failed")
    /\ UNCHANGED <<mcp, dfInstalled, sfInstalled, model, loop, kind, pc, fileSize,
                   callback, pending, result, temp_files, fs, opens, closes,
                   initDur, enhDur, sent, progress, delFail>>

\* Lines 115-125, on the worker thread: sf.read, enhance, sf.write.
T_Process(j) ==
    /\ thread[j] = "process"
    /\ \E out \in {"ok", "raise_read", "raise_enhance", "fail", "partial"} :
        /\ events' = [events EXCEPT ![j] = @ \cup
              (CASE out = "raise_read" -> {}
                 [] out = "raise_enhance" -> {"enhance"}
                 [] OTHER -> {"enhance", "enhance_ok"})]
        /\ fs' = IF out \in {"ok", "partial"} THEN Create(fs, j, "enhanced") ELSE fs
        /\ thread' = Set(thread, j, IF out = "ok" THEN "finished" ELSE "failed")
    /\ UNCHANGED <<mcp, dfInstalled, sfInstalled, model, initCount, loop, kind, pc,
                   fileSize, callback, pending, result, temp_files, opens,
                   closes, initDur, enhDur, sent, progress, delFail>>

\* H_Join with the worker's exception dropped instead of re-raised.
H_JoinSwallow(j) ==
    /\ pc[j] = "h_join"
    /\ thread[j] \in {"finished", "failed"}
    /\ Runnable(j)
    /\ pc' = Set(pc, j, "h_a_merge")
    /\ loop' = j
    /\ UNCHANGED <<mcp, dfInstalled, sfInstalled, model, initCount, kind, fileSize,
                   callback, pending, result, temp_files, fs, opens, closes,
                   events, initDur, enhDur, sent, progress, thread, delFail>>

\* Line 128 resumes: to_thread returns the worker's value or re-raises.
H_Join(j) ==
    /\ pc[j] = "h_join"
    /\ thread[j] \in {"finished", "failed"}
    /\ Runnable(j)
    /\ IF thread[j] = "finished"
       THEN /\ pc' = Set(pc, j, "h_a_merge")
            /\ pending' = pending
       ELSE Catch(j)
    /\ loop' = j
    /\ UNCHANGED <<mcp, dfInstalled, sfInstalled, model, initCount, kind, fileSize,
                   callback, result, temp_files, fs, opens, closes, events,
                   initDur, enhDur, sent, progress, thread, delFail>>

\* Lines 136-156: reopen the video, open the enhanced audio, write the
\* output; the inner finally closes what was opened.
H_Merge(j) ==
    /\ pc[j] = "h_merge"
    /\ Runnable(j)
    /\ \E out \in {"ok", "raise_open", "raise_audio", "raise_set", "fail", "partial"} :
        LET clipOpen == out # "raise_open"
            audioOpen == out \notin {"raise_open", "raise_audio"}
            writes == out \in {"ok", "fail", "partial"}
            o1 == IF clipOpen THEN Open(opens, j, "final_clip") ELSE opens
            c1 == IF clipOpen THEN Open(closes, j, "final_clip") ELSE closes
        IN  /\ opens' = IF audioOpen THEN Open(o1, j, "enhanced_audio") ELSE o1
            /\ closes' = IF audioOpen THEN Open(c1, j, "enhanced_audio") ELSE c1
            /\ events' = [events EXCEPT ![j] = @ \cup
                  (CASE out = "ok" -> {"write", "write_ok"}
                     [] writes -> {"write"}
                     [] OTHER -> {})]
            /\ fs' = IF out \in {"ok", "partial"} THEN Create(fs, j, "output") ELSE fs
            /\ IF out = "ok"
               THEN /\ pc' = Set(pc, j, "h_a_complete")
                    /\ pending' = pending
               ELSE Catch(j)
    /\ loop' = j
    /\ UNCHANGED <<mcp, dfInstalled, sfInstalled, model, initCount, kind, fileSize,
                   callback, result, temp_files, initDur, enhDur, sent,
                   progress, thread, delFail>>

\* Lines 163-168: await message.answer_video(...).
H_SendVideo(j) ==
    /\ pc[j] = "h_send_video"
    /\ Runnable(j)
    /\ \E out \in {"ok", "raise"} :
        IF out = "ok"
        THEN /\ sent' = Set(sent, j, Append(sent[j], "video"))
             /\ pending' = Set(pending, j, Exc("ReturnOk", ""))
             /\ pc' = Set(pc, j, "h_finally")
        ELSE /\ Catch(j)
             /\ sent' = sent
    /\ loop' = 0
    /\ UNCHANGED <<mcp, dfInstalled, sfInstalled, model, initCount, kind, fileSize,
                   callback, result, temp_files, fs, opens, closes, events,
                   initDur, enhDur, progress, thread, delFail>>

\* Lines 170-175: the except clause sends the error message. If that send
\* raises, the new exception leaves the handler after the finally block.
H_Except(j) ==
    /\ pc[j] = "h_except"
    /\ Runnable(j)
    /\ \E out \in {"ok", "raise"} :
        /\ sent' = IF out = "ok"
                   THEN Set(sent, j, Append(sent[j], MsgGenericError))
                   ELSE sent
        /\ pending' = Set(pending, j,
              Exc(IF out = "ok" THEN "Handled" ELSE "Escaping", ""))
    /\ pc' = Set(pc, j, "h_finally")
    /\ loop' = 0
    /\ UNCHANGED <<mcp, dfInstalled, sfInstalled, model, initCount, kind, fileSize,
                   callback, result, temp_files, fs, opens, closes, events,
                   initDur, enhDur, progress, thread, delFail>>

\* Line 179: the finally block first awaits the "cleaning up" message; if
\* that raises, the rest of the block is skipped.
H_FinallyAnswer(j) ==
    /\ pc[j] = "h_finally"
    /\ Runnable(j)
    /\ \E out \in {"ok", "raise"} :
        IF out = "ok"
        THEN /\ sent' = Set(sent, j, Append(sent[j], "cleaning"))
             /\ pc' = Set(pc, j, "h_cleanup")
             /\ result' = result
        ELSE /\ sent' = sent
             /\ pc' = Set(pc, j, "done")
             /\ result' = Set(result, j, [status |-> "raised", msg |-> ""])
    /\ loop' = 0
    /\ UNCHANGED <<mcp, dfInstalled, sfInstalled, model, initCount, kind, fileSize,
                   callback, pending, temp_files, fs, opens, closes, events,
                   initDur, enhDur, progress, thread, delFail>>

\* What the handler's caller sees once the finally block is through.
HandlerOutcome(p) ==
    CASE p.type = "ReturnOk" -> [status |-> "completed", msg |-> ""]
      [] p.type = "Handled" -> [status |-> "handled", msg |-> ""]
      [] OTHER -> [status |-> "raised", msg |-> ""]

\* Lines 180-196: remove the four files, then the directory.
H_Cleanup(j) ==
    /\ pc[j] = "h_cleanup"
    /\ Runnable(j)
    /\ \E failing \in FailingSets(j, CleanupOrder, fs) :
        /\ delFail' = Set(delFail, j, failing)
        /\ fs' = RemoveAll("handler", j, CleanupOrder, fs, failing)
    /\ result' = Set(result, j, HandlerOutcome(pending[j]))
    /\ pc' = Set(pc, j, "done")
    /\ loop' = 0
    /\ UNCHANGED <<mcp, dfInstalled, sfInstalled, model, initCount, kind, fileSize,
                   callback, pending, temp_files, opens, closes, events,
                   initDur, enhDur, sent, progress, thread>>

\* ------------------------------------------------------------------- Next
Next ==
    \E j \in Jobs :
        \/ D_Validate(j)
        \/ D_Open(j)
        \/ D_MkTemp(j)
        \/ D_Extract(j)
        \/ D_Yield(j)
        \/ D_InitModel(j)
        \/ D_Load(j)
        \/ D_Enhance(j)
        \/ D_Save(j)
        \/ D_OpenEnhanced(j)
        \/ D_Write(j)
        \/ D_Progress(j)
        \/ D_Finally(j)
        \/ H_Start(j)
        \/ H_Notify(j)
        \/ H_Download(j)
        \/ H_ChatAction(j)
        \/ H_Extract(j)
        \/ H_ToThread(j)
        \/ T_InitDf(j)
        \/ T_Process(j)
        \/ H_Join(j)
        \/ H_Merge(j)
        \/ H_SendVideo(j)
        \/ H_Except(j)
        \/ H_FinallyAnswer(j)
        \/ H_Cleanup(j)

Spec == Init /\ [][Next]_vars

\* ------------------------------------------------------ mcp_render_server
Tools == {"list_services", "get_service_status", "get_service_logs",
          "get_deployments", "trigger_deploy", "get_account_info"}
\* Tools that test "if not <list>" before formatting.
ListTools == {"list_services", "get_service_logs", "get_deployments"}

\* What the one HTTP exchange of _request can come to: client.request
\* raises, raise_for_status raises, response.json() raises, or a JSON value
\* that is well formed, empty, or not of the shape the tool formats.
Responses == {"transport_error", "http_error", "bad_json", "data", "empty",
              "bad_shape"}
RequestException(r) ==
    CASE r = "transport_error" -> "RequestError"
      [] r = "http_error" -> "HTTPStatusError"
      [] r = "bad_json" -> "JSONDecodeError"
      [] OTHER -> "none"

MsgNotConfigured == "Error: RENDER_API_KEY not configured. Please set it in .env file."
ErrorText(t) ==
    CASE t = "list_services" -> "Error fetching services: "
      [] t = "get_service_status" -> "Error fetching service status: "
      [] t = "get_service_logs" -> "Error fetching logs: "
      [] t = "get_deployments" -> "Error fetching deployments: "
      [] t = "trigger_deploy" -> "Error triggering deploy: "
      [] OTHER -> "Error fetching account info: "
EmptyText(t) ==
    CASE t = "list_services" -> "No services found."
      [] t = "get_service_logs" -> "No logs found for this service."
      [] OTHER -> "No deployments found for this service."

botvars == <<dfInstalled, sfInstalled, model, initCount, loop, kind, pc,
             fileSize, callback, pending, result, temp_files, fs, opens,
             closes, events, initDur, enhDur, sent, progress, thread, delFail>>

\* call_tool dispatches to one of the six tool functions.
M_Call ==
    /\ mcp.pc = "idle"
    /\ mcp.calls < MaxCalls
    /\ \E t \in Tools :
        mcp' = [mcp EXCEPT !.pc = "check", !.tool = t, !.requests = 0,
                           !.resp = "none", !.exc = "none", !.result = "none"]
    /\ UNCHANGED botvars

\* "if not render_client: return ..." at the head of every tool.
M_CheckClient ==
    /\ mcp.pc = "check"
    /\ mcp' = IF mcp.key
              THEN [mcp EXCEPT !.pc = "request"]
              ELSE [mcp EXCEPT !.pc = "returned", !.result = MsgNotConfigured]
    /\ UNCHANGED botvars

\* A _request that issues the request once more after a failure.
M_RequestRetry ==
    /\ mcp.pc = "request"
    /\ \E r \in Responses :
        mcp' = [mcp EXCEPT
                  !.requests = @ + 1,
                  !.resp = r,
                  !.exc = RequestException(r),
                  !.pc = IF RequestException(r) = "none" THEN "format"
                         ELSE IF mcp.requests = 0 THEN "request"
                         ELSE "except"]
    /\ UNCHANGED botvars

\* RenderAPIClient._request: one client.request, raise_for_status, json().
M_Request ==
    /\ mcp.pc = "request"
    /\ \E r \in Responses :
        mcp' = [mcp EXCEPT
                  !.requests = @ + 1,
                  !.resp = r,
                  !.exc = RequestException(r),
                  !.pc = IF RequestException(r) = "none" THEN "format"
                         ELSE "except"]
    /\ UNCHANGED botvars

\* The rest of the try body: the emptiness test of the list tools and the
\* formatting, which raises on a value of an unexpected shape.
M_Format ==
    /\ mcp.pc = "format"
    /\ mcp' = IF mcp.resp = "bad_shape"
              THEN [mcp EXCEPT !.pc = "except", !.exc = "TypeError"]
              ELSE IF mcp.resp = "empty" /\ mcp.tool \in ListTools
                   THEN [mcp EXCEPT !.pc = "returned",
                                    !.result = EmptyText(mcp.tool)]
                   ELSE [mcp EXCEPT !.pc = "returned", !.result = "formatted"]
    /\ UNCHANGED botvars

\* "except Exception as e: return f'Error ...: {str(e)}'".
M_Except ==
    /\ mcp.pc = "except"
    /\ mcp' = [mcp EXCEPT !.pc = "returned", !.exc = "none",
                          !.result = ErrorText(mcp.tool)]
    /\ UNCHANGED botvars

\* The tool's value goes back to call_tool; the server waits for the next call.
M_Return ==
    /\ mcp.pc = "returned"
    /\ mcp' = [mcp EXCEPT !.pc = "idle", !.calls = @ + 1]
    /\ UNCHANGED botvars

InitMcp ==
    /\ dfInstalled = FALSE
    /\ sfInstalled = FALSE
    /\ BotIdle
    /\ \E k \in BOOLEAN : mcp = McpInit(k)

NextMcp ==
    \/ M_Call
    \/ M_CheckClient
    \/ M_Request
    \/ M_Format
    \/ M_Except
    \/ M_Return

SpecMcp == InitMcp /\ [][NextMcp]_vars

\* ----------------------------------------------------------------- claims
Range(q) == {q[i] : i \in DOMAIN q}
Done(j) == pc[j] = "done"
IsDenoise(j) == kind[j] = "denoise"
IsHandler(j) == kind[j] = "handler"
TempNames == {"dir", "audio", "enhanced"}

\* C1: a denoise_video job that created its temp directory leaves neither
\* the directory nor audio.wav / enhanced.wav behind once it has completed,
\* provided no delete call on an existing path failed.
C1_TempArtifactsRemoved ==
    \A j \in Jobs :
        (IsDenoise(j) /\ Done(j) /\ temp_files[j] # <<>> /\ delFail[j] = {})
            => \A n \in TempNames : Path(j, n) \notin fs

\* C2: denoise_video never raises to its caller: a completed call has
\* returned (output_path, None) or (None, error_message).
C2_NeverRaises ==
    \A j \in Jobs :
        (IsDenoise(j) /\ Done(j))
            => result[j].status \in {"returned_ok", "returned_err"}

\* C3: an input larger than MAX_FILE_SIZE fails with the too-large error
\* before the video is opened, a temp directory is made or any of
\* extraction, model init, enhancement and remux is invoked; an input of
\* exactly MAX_FILE_SIZE is not rejected by the size check.
C3_TooLargeRejectedFirst ==
    \A j \in Jobs :
        IsDenoise(j) =>
            /\ fileSize[j] > MAX_FILE_SIZE =>
                /\ pending[j] = Exc("VideoProcessingError", MsgTooLarge)
                /\ pc[j] \in {"d_finally", "done"}
                /\ Done(j) => result[j] = [status |-> "raised", msg |-> MsgTooLarge]
                /\ events[j] = {}
                /\ temp_files[j] = <<>>
                /\ Path(j, "dir") \notin fs
                /\ \A h \in HandleNames : opens[j][h] = 0
            /\ fileSize[j] = MAX_FILE_SIZE =>
                /\ pending[j].msg # MsgTooLarge
                /\ result[j].msg # MsgTooLarge
                /\ pc[j] # "idle"

\* C3 witness: one job was rejected as too large and has completed, while
\* a job of exactly MAX_FILE_SIZE got as far as writing its output.
C3_Witness ==
    \E a, b \in Jobs :
        /\ IsDenoise(a) /\ fileSize[a] > MAX_FILE_SIZE /\ Done(a)
        /\ IsDenoise(b) /\ fileSize[b] = MAX_FILE_SIZE /\ "write" \in events[b]

\* C4: a video with no audio track makes the job fail with the specific
\* no-audio-track error, in denoise_video and in process_video alike, and
\* no extraction, enhancement or remux is performed.
C4_NoAudioSpecificError ==
    \A j \in Jobs :
        ("no_audio" \in events[j] /\ Done(j)) =>
            /\ events[j] \cap {"extract", "enhance", "write"} = {}
            /\ IsDenoise(j) => result[j].msg = MsgNoAudio
            /\ IsHandler(j) => MsgNoAudio \in Range(sent[j])

\* C5: a model initialization that takes longer than 60 seconds ends the
\* job with a timeout failure.
C5_SlowInitTimesOut ==
    \A j \in Jobs :
        (IsDenoise(j) /\ initDur[j] > INIT_TIMEOUT /\ Done(j))
            => /\ result[j].status # "returned_ok"
               /\ result[j].msg \in {MsgInitTimeout, MsgProcTimeout}

\* C6: an enhancement call that takes longer than PROCESSING_TIMEOUT ends
\* the job with the processing-timeout failure, and the output file is
\* never written.
C6_SlowEnhanceTimesOut ==
    \A j \in Jobs :
        (IsDenoise(j) /\ enhDur[j] > PROCESSING_TIMEOUT)
            => /\ "write" \notin events[j]
               /\ Path(j, "output") \notin fs
               /\ Done(j) => result[j].msg = MsgProcTimeout

\* C7: across all jobs of the process, init_df completes successfully at
\* most once.
C7_InitAtMostOnce == initCount <= 1

\* C8: write_videofile is invoked in a job only after that job's model
\* initialization and enhancement call have returned successfully.
C8_WriteOnlyAfterEnhance ==
    \A j \in Jobs :
        "write" \in events[j] => {"init_ok", "enhance_ok"} \subseteq events[j]

\* C8 witness: a denoise_video job and a process_video job have both
\* invoked write_videofile.
C8_Witness ==
    \E a, b \in Jobs :
        /\ IsDenoise(a) /\ "write" \in events[a]
        /\ IsHandler(b) /\ "write" \in events[b]

\* C9: when a job has completed, every media handle it opened has been
\* closed exactly once.
C9_HandlesClosedOnce ==
    \A j \in Jobs :
        Done(j) => \A h \in HandleNames : closes[j][h] = opens[j][h]

\* C10: the error reply of process_video is never delivered while temp
\* artifacts of the job still exist.
C10_CleanupBeforeErrorReply ==
    \A j \in Jobs :
        (IsHandler(j) /\ MsgGenericError \in Range(sent[j]))
            => \A n \in PathNames : Path(j, n) \notin fs

\* C11: the values passed to a job's progress callback are non-decreasing
\* and lie in [0, 1] (0..100 percent); the callback is invoked only after
\* the output video has been written, and on a successful job with a
\* callback the last value is exactly 1.0.
C11_ProgressMonotoneEndsAtOne ==
    \A j \in Jobs :
        /\ \A i \in DOMAIN progress[j] : progress[j][i] \in 0..100
        /\ \A i, k \in DOMAIN progress[j] :
               i < k => progress[j][i] <= progress[j][k]
        /\ progress[j] # <<>> =>
               "write" \in events[j] /\ Path(j, "output") \in fs
        /\ (Done(j) /\ result[j].status = "returned_ok" /\ callback[j] # "none")
               => /\ progress[j] # <<>>
                  /\ progress[j][Len(progress[j])] = 100

\* C11 witness: a denoise_video job with a callback has returned
\* (output_path, None) after reporting 1.0.
C11_Witness ==
    \E j \in Jobs :
        /\ IsDenoise(j) /\ Done(j) /\ result[j].status = "returned_ok"
        /\ callback[j] = "ok" /\ progress[j] = <<100>>

\* C12: when a process_video job that created its temp directory has
\* finished, on whatever exit path, none of its four files nor the
\* directory exists, provided no delete call on an existing path failed.
C12_HandlerArtifactsRemoved ==
    \A j \in Jobs :
        (IsHandler(j) /\ Done(j) /\ delFail[j] = {})
            => \A n \in PathNames : Path(j, n) \notin fs

\* C13: the result of a denoise_video job is the one its try body and
\* except clauses produced, whether or not a deletion failed during cleanup
\* or a registered path was already gone; and every registered file whose
\* deletion did not fail has been removed.
C13_CleanupNeverMasksResult ==
    \A j \in Jobs :
        (IsDenoise(j) /\ Done(j)) =>
            /\ pending[j].type = "ReturnOk" =>
                   result[j] = [status |-> "returned_ok", msg |-> ""]
            /\ pending[j].type = "ReturnErr" =>
                   result[j] = [status |-> "returned_err", msg |-> pending[j].msg]
            /\ pending[j].type = "VideoProcessingError" =>
                   result[j] = [status |-> "raised", msg |-> pending[j].msg]
            /\ pending[j].type = "Exception" =>
                   result[j] = [status |-> "returned_err", msg |-> MsgUnexpected]
            /\ \A n \in Range(temp_files[j]) \ ({"dir"} \cup delFail[j]) :
                   Path(j, n) \notin fs

\* C13 witness: a job returned (output_path, None) although the deletion
\* of audio.wav failed, and its enhanced.wav was still removed.
C13_Witness ==
    \E j \in Jobs :
        /\ IsDenoise(j) /\ Done(j)
        /\ delFail[j] = {"audio"} /\ Path(j, "audio") \in fs
        /\ temp_files[j] = <<"dir", "audio", "enhanced">>
        /\ Path(j, "enhanced") \notin fs
        /\ result[j].status = "returned_ok"

\* Positions of denoise_video and of process_video in program order.
DenoiseOrder == <<"idle", "d_open", "d_mktemp", "d_extract", "d_init", "d_load",
                  "d_enhance", "d_save", "d_openenh", "d_write", "d_progress",
                  "d_finally">>
HandlerOrder == <<"idle", "h_a_download", "h_download", "h_a_extract",
                  "h_chat_action", "h_extract", "h_a_apply", "h_to_thread",
                  "h_join", "h_a_merge", "h_merge", "h_a_complete",
                  "h_send_video", "h_except", "h_finally", "h_cleanup">>
IndexOf(q, p) == CHOOSE i \in DOMAIN q : q[i] = p
PcRank(p) ==
    IF p = "done" THEN Len(HandlerOrder) + 1
    ELSE IF p \in Range(DenoiseOrder) THEN IndexOf(DenoiseOrder, p)
    ELSE IndexOf(HandlerOrder, p)
ThreadRank(t) ==
    CASE t = "none" -> 0 [] t = "init" -> 1 [] t = "process" -> 2 [] OTHER -> 3

\* The stage a position belongs to: 1 validate (for the handler: obtain
\* the input), 2 extract, 3 enhance, 4 remux, 5 deliver, 6 the except and
\* finally blocks, 7 done; 0 before the job starts.
StageNo(p) ==
    CASE p = "idle" -> 0
      [] p \in {"d_open", "h_a_download", "h_download"} -> 1
      [] p \in {"d_mktemp", "d_extract", "h_a_extract", "h_chat_action",
                "h_extract"} -> 2
      [] p \in {"d_init", "d_load", "d_enhance", "h_a_apply", "h_to_thread",
                "h_join"} -> 3
      [] p \in {"d_save", "d_openenh", "d_write", "d_progress", "h_a_merge",
                "h_merge"} -> 4
      [] p \in {"h_a_complete", "h_send_video"} -> 5
      [] p = "done" -> 7
      [] OTHER -> 6
Failed(j) == pending[j].type \notin {"running", "ReturnOk"}

\* Positions, at least one in each stage, at which the job's next step can
\* be a failing one.
FailPoints == {"d_open", "h_a_download", "h_download", "d_mktemp", "d_extract",
               "h_a_extract", "h_chat_action", "h_extract", "d_load",
               "d_enhance", "h_a_apply", "d_save", "d_openenh", "d_write",
               "d_progress", "h_a_merge", "h_merge", "h_a_complete",
               "h_send_video"}

C14_StageState ==
    \A j \in Jobs :
        LET a == StageNo(pc[j]) IN
        /\ a \in 1..5 => ~Failed(j)
        /\ Failed(j) => a >= 6
        /\ a \in 2..5 => /\ IsDenoise(j) => "open_ok" \in events[j]
                         /\ IsHandler(j) => "download_ok" \in events[j]
        /\ a \in 3..5 => "extract_ok" \in events[j]
        /\ a \in 4..5 => {"init_ok", "enhance_ok"} \subseteq events[j]
        /\ a = 5 => "write_ok" \in events[j]
        /\ (pc[j] \in FailPoints /\ Runnable(j))
               => ENABLED (Next /\ ~Failed(j) /\ Failed(j)')
        /\ thread[j] \in {"init", "process"}
               => ENABLED (Next /\ thread'[j] = "failed")

C14_StageStep ==
    \A j \in Jobs :
        LET a == StageNo(pc[j])
            b == StageNo(pc'[j])
        IN  /\ b = a \/ b = a + 1 \/ (b >= 6 /\ b > a)
            /\ (pc'[j] # pc[j] \/ thread'[j] # thread[j] \/ events'[j] # events[j])
                   => 10 * PcRank(pc'[j]) + ThreadRank(thread'[j])
                          > 10 * PcRank(pc[j]) + ThreadRank(thread[j])
            /\ Failed(j) => events'[j] = events[j] /\ thread'[j] = thread[j]

\* C14: a job's stages occur only in the order validate, extract, enhance,
\* remux, deliver, done; a stage starts only when the stages before it have
\* completed successfully; no step of a job is taken twice (no retry); in
\* every stage a failing step can be taken; and a failed job invokes no
\* further pipeline operation.
C14_StagesInOrderNoRetry == []C14_StageState /\ [][C14_StageStep]_vars

\* C14 witness: one job has been through every stage to done, and another
\* has failed in the enhance stage and is done.
C14_Witness ==
    \E a, b \in Jobs :
        /\ IsHandler(a) /\ Done(a) /\ result[a].status = "completed"
        /\ "write_ok" \in events[a]
        /\ Done(b) /\ Failed(b) /\ "extract_ok" \in events[b]
        /\ "enhance_ok" \notin events[b] /\ "write" \notin events[b]

\* C15: the step that runs model initialization or the enhancement call for
\* a denoise_video job is not a step of the event loop: when it completes
\* the loop is not held by that job, so the other jobs could run meanwhile.
C15_ModelWorkOffLoop ==
    [][\A j \in Jobs :
          (/\ kind'[j] = "denoise"
           /\ \/ "enhance" \in events'[j] \ events[j]
              \/ "init" \in events'[j] \ events[j] /\ initDur'[j] > 0)
          => loop' # j]_vars

\* The state of one job, and the paths under its own directories.
JobState(j) ==
    <<kind[j], pc[j], fileSize[j], callback[j], pending[j], result[j],
      temp_files[j], opens[j], closes[j], events[j], initDur[j], enhDur[j],
      sent[j], progress[j], thread[j], delFail[j]>>
Own(j) == {Path(j, n) : n \in PathNames}
JobChanged(j) ==
    \/ JobState(j)' # JobState(j)
    \/ (fs' \cap Own(j)) # (fs \cap Own(j))

\* The files the next step of the job (or of its worker thread) reads:
\* VideoFileClip(input), librosa.load / load_audio(audio),
\* AudioFileClip(enhanced), write_videofile, FSInputFile(output).
Reads(j) ==
    {Path(j, n) : n \in
        (CASE pc[j] \in {"d_open", "d_extract", "h_extract"} -> {"input"}
           [] pc[j] = "d_load" -> {"audio"}
           [] pc[j] = "d_openenh" -> {"enhanced"}
           [] pc[j] \in {"d_write", "h_merge"} -> {"input", "enhanced"}
           [] pc[j] = "h_send_video" -> {"output"}
           [] OTHER -> {})
        \cup (IF thread[j] = "process" THEN {"audio"} ELSE {})}

C16_IsolatedState ==
    \A j \in Jobs :
        /\ Reads(j) \subseteq Own(j) \cap fs
        /\ \A k \in Jobs \ {j} : Own(j) \cap Own(k) = {}
C16_IsolatedStep ==
    /\ \A j, k \in Jobs : (j # k /\ JobChanged(j)) => ~JobChanged(k)
    /\ \A j \in Jobs :
          (pc[j] = "d_finally" /\ pc'[j] = "done")
              => fs \ fs' \subseteq {Path(j, n) : n \in Range(temp_files[j])}
    /\ \A j \in Jobs :
          (pc[j] = "h_cleanup" /\ pc'[j] = "done")
              => fs \ fs' \subseteq {Path(j, n) : n \in Range(CleanupOrder)}

\* C16: under every interleaving each step creates, deletes or changes only
\* the artifacts and the state of one job; a job's cleanup deletes only
\* paths that job registered under its own directory; every file a job is
\* about to read is its own and is still there; the jobs' directories are
\* disjoint (what remains shared is the model cache).
C16_JobsIsolated == []C16_IsolatedState /\ [][C16_IsolatedStep]_vars

\* C16 witness: one job has cleaned up and is done while the other, which
\* had created its own audio file, is still about to read it.
C16_Witness ==
    \E a, b \in Jobs :
        /\ a # b
        /\ Done(a) /\ "extract_ok" \in events[a] /\ fs \cap Own(a) \subseteq {Path(a, "input"), Path(a, "output")}
        /\ pc[b] \in {"d_load", "h_join"} /\ Path(b, "audio") \in Reads(b) \cap fs

\* C17: a denoise_video call that has reported a failure (returned
\* (None, message) or raised) has not written the output file: a completed
\* write_videofile leaves its file only with the result (output_path, None).
C17_OutputOnlyOnSuccess ==
    \A j \in Jobs :
        (IsDenoise(j) /\ Done(j) /\ result[j].status # "returned_ok")
            => ~("write_ok" \in events[j] /\ Path(j, "output") \in fs)

\* C18: no tool call ends with an exception pending; without a key the
\* tool returns the configuration-error string and no request is issued;
\* with a key exactly one request is issued per call, and when it fails
\* (or its value cannot be formatted) the tool returns its "Error ..."
\* string.
C18_ToolsNeverRaise ==
    /\ mcp.requests <= 1
    /\ mcp.pc \in {"returned", "idle"} => mcp.exc = "none"
    /\ mcp.pc = "returned" =>
          /\ mcp.result # "none"
          /\ ~mcp.key => mcp.result = MsgNotConfigured /\ mcp.requests = 0
          /\ mcp.key => mcp.requests = 1
          /\ (mcp.key /\ mcp.resp \in {"transport_error", "http_error",
                                       "bad_json", "bad_shape"})
                 => mcp.result = ErrorText(mcp.tool)
          /\ mcp.result \in {ErrorText(t) : t \in Tools}
                 => mcp.resp \in {"transport_error", "http_error", "bad_json",
                                  "bad_shape"}

\* C18 witness: a configured server has returned the error string of
\* get_deployments after its one request failed, in its second call.
C18_Witness ==
    /\ mcp.key /\ mcp.pc = "returned" /\ mcp.calls = 1
    /\ mcp.tool = "get_deployments" /\ mcp.resp = "http_error"
    /\ mcp.requests = 1 /\ mcp.result = "Error fetching deployments: "
====
